---- MODULE Spec2Model ----
(***************************************************************************)
(* AskTheBridge (src/app.py): the question-answering dispatch (curated     *)
(* static answers, cached completion call with retry and backoff) and the  *)
(* chat-session state kept in st.session_state and in the user_chats table.*)
(*                                                                         *)
(* Texts are sequences of one-character strings, so that str.strip(),      *)
(* str.lower() and the substring tests of the code are computed and not    *)
(* assumed.                                                                *)
(***************************************************************************)
EXTENDS Integers, Sequences, FiniteSets, TLC

VARIABLES
    \* ---- one execution of the body of ask_openai_cached (lines 352-370)
    cpc,        \* position: "idle", "try", "sleep", "returned", "raised"
    cq,         \* the question argument
    attempt,    \* the loop variable of `for attempt in range(3)`
    waited,     \* total seconds passed to time.sleep during the call
    trace,      \* what the call did so far: provider calls and sleeps, in order
    cret,       \* the returned string (meaningful once cpc = "returned")
    \* ---- st.session_state of one browser session (lines 193-212)
    page,                \* "login" or "chat"
    logged_in,
    username,            \* the identity, NoUser for None
    users,               \* identity -> sequence of chats [title, messages]
    current_chat_index,  \* 0-based as in the code, NoIndex for None
    \* ---- collaborators
    db,         \* table user_chats: identity -> rows [title, messages] by created_at
    cache,      \* st.cache_data store of ask_openai_cached: question -> value
    \* ---- observation of the run
    execs,      \* question -> number of executions of the body of ask_openai_cached
    last,       \* what the last interaction did
    budget,     \* how many more Send, Ask OpenAI and get_answer interactions (in the
                \* sign-up and reset model: how many more codes) the run takes
    \* ---- st.session_state of the sign-up and password-reset pages
    verification_codes,    \* email -> [code, expiry], line 201
    password_reset_codes,  \* email -> [code, expiry], line 203
    reset_step,            \* 1 or 2, line 205
    temp_signup_email,     \* lines 665-666, NoUser while unset
    temp_signup_password,
    reset_email_temp,      \* line 704, NoUser while unset
    \* ---- the browser and the clock
    shown,      \* the page (and reset step) whose widgets the last script run put
                \* on the screen; followed on the sign-up and reset pages, where a
                \* callback of the screen's page can run in a state of another page
    now,        \* datetime.utcnow(), in minutes since the first code was issued
    \* ---- observation of the run
    issued,     \* per kind and email: the most recent code issued, when, and
                \* how often it was accepted
    alast       \* what the last sign-up or reset interaction did

cvars == <<cpc, cq, attempt, waited, trace, cret>>

appvars == <<page, logged_in, username, users, current_chat_index,
             db, cache, execs, last, budget>>

authvars == <<verification_codes, password_reset_codes, reset_step,
              temp_signup_email, temp_signup_password, reset_email_temp,
              shown, now, issued, alast>>

vars == <<cpc, cq, attempt, waited, trace, cret,
          page, logged_in, username, users, current_chat_index,
          db, cache, execs, last, budget,
          verification_codes, password_reset_codes, reset_step,
          temp_signup_email, temp_signup_password, reset_email_temp,
          shown, now, issued, alast>>

(***************************************************************************)
(* Text helpers: Python's str.lower, str.strip, `in` on strings.           *)
(***************************************************************************)
UpperChars == <<"A","B","C","D","E","F","G","H","I","J","K","L","M",
                "N","O","P","Q","R","S","T","U","V","W","X","Y","Z">>
LowerChars == <<"a","b","c","d","e","f","g","h","i","j","k","l","m",
                "n","o","p","q","r","s","t","u","v","w","x","y","z">>

Whitespace == {" ", "\n", "\t"}

LowerChar(c) ==
    IF \E i \in DOMAIN UpperChars : UpperChars[i] = c
    THEN LowerChars[CHOOSE i \in DOMAIN UpperChars : UpperChars[i] = c]
    ELSE c

\* str.lower()
Lower(s) == [i \in DOMAIN s |-> LowerChar(s[i])]

\* str.strip(): drop the leading and the trailing whitespace characters
Strip(s) ==
    LET ink == {i \in DOMAIN s : s[i] \notin Whitespace}
    IN  IF ink = {} THEN <<>>
        ELSE LET lo == CHOOSE i \in ink : \A j \in ink : i <= j
                 hi == CHOOSE i \in ink : \A j \in ink : i >= j
             IN  SubSeq(s, lo, hi)

\* `sub in s` on strings
Contains(s, sub) ==
    \E i \in 0..(Len(s) - Len(sub)) : SubSeq(s, i + 1, i + Len(sub)) = sub

(***************************************************************************)
(* The completion provider, openai.chat.completions.create: it answers     *)
(* with a message that has a text content, with a message whose content is *)
(* None, or it raises an exception whose str() is some error text.         *)
(***************************************************************************)
OkText(t)   == [kind |-> "ok", hasText |-> TRUE, text |-> t]
OkNone      == [kind |-> "ok", hasText |-> FALSE, text |-> <<>>]
Raises(t)   == [kind |-> "raise", hasText |-> FALSE, text |-> t]

ErrRateLimitReached == <<"R","a","t","e"," ","l","i","m","i","t"," ","r","e","a","c","h","e","d">>
ErrCode429          == <<"E","r","r","o","r"," ","c","o","d","e",":"," ","4","2","9">>
ErrRATELIMIT        == <<"R","A","T","E"," ","L","I","M","I","T">>
ErrConnection       == <<"C","o","n","n","e","c","t","i","o","n"," ","e","r","r","o","r">>
\* str() of the AttributeError raised by None.strip() inside the try block
ErrNoneStrip == <<"'","N","o","n","e","T","y","p","e","'"," ","o","b","j","e","c","t"," ",
                  "h","a","s"," ","n","o"," ","a","t","t","r","i","b","u","t","e"," ",
                  "'","s","t","r","i","p","'">>

ReplyPlain  == <<"o","k">>
ReplyPadded == <<" ","h","i","\n">>

ProviderOutcomes ==
    { OkText(ReplyPlain), OkText(ReplyPadded), OkNone,
      Raises(ErrRateLimitReached), Raises(ErrCode429), Raises(ErrRATELIMIT),
      Raises(ErrConnection) }

(***************************************************************************)
(* The curated list of load_partner_cache (lines 387-559), two pairs here, *)
(* and STATIC_QA (line 562). As the 20 questions of the source, the        *)
(* questions hold upper-case letters and no surrounding whitespace, and no *)
(* two are equal after lower().                                            *)
(***************************************************************************)
PartnerCache ==
    << [question |-> <<"A">>, answer |-> <<"x">>],
       [question |-> <<"B">>, answer |-> <<"y">>] >>

\* the keys of the dict comprehension of line 562
StaticKeys == { Lower(PartnerCache[i].question) : i \in DOMAIN PartnerCache }

\* mutant: the first pair's answer, whatever the key
StaticAnswerFirst(key) == PartnerCache[1].answer

\* STATIC_QA[key]: in a dict comprehension a later pair overwrites an earlier one
StaticAnswer(key) ==
    LET hits == {i \in DOMAIN PartnerCache : Lower(PartnerCache[i].question) = key}
    IN  PartnerCache[CHOOSE i \in hits : \A j \in hits : j <= i].answer

\* mutant: the key is lowercased but not stripped
StaticKeyNoStrip(text) == Lower(text)

\* lines 565 and 784: user_input.strip().lower()
StaticKey(text) == Lower(Strip(text))

(***************************************************************************)
(* Identities, sessions, messages.                                         *)
(***************************************************************************)
NoUser  == "None"
NoIndex == -1
Guest   == "Guest"
Emails  == {"u@x"}
Identities == Emails \cup {Guest}

DigitChars == <<"0","1","2","3","4","5","6","7","8","9">>

RECURSIVE Str(_)
\* str(n) of a natural number
Str(n) == IF n < 10 THEN <<DigitChars[n + 1]>>
          ELSE Str(n \div 10) \o <<DigitChars[(n % 10) + 1]>>

\* lines 634, 649, 734, 746: f"Chat {n}"
ChatTitle(n) == <<"C","h","a","t"," ">> \o Str(n)

\* a message dict; a missing "is_static_answer" key reads as False (msg.get)
UserMsg(t)   == [role |-> "user", content |-> t, is_static_answer |-> FALSE]
\* mutant: every bot message carries the flag
BotMsgFlagged(t) == [role |-> "bot", content |-> t, is_static_answer |-> TRUE]

BotMsg(t)    == [role |-> "bot", content |-> t, is_static_answer |-> FALSE]
StaticMsg(t) == [role |-> "bot", content |-> t, is_static_answer |-> TRUE]

NewChatDict(n) == [title |-> ChatTitle(n), messages |-> <<>>]

\* what the user may type into the message box (or pass to get_answer)
TypedTexts ==
    { <<"A">>, <<" ","a","\n">>, <<"b">>,
      <<"w">>, <<" ","w">>, <<"W">>,
      <<" ">>, <<>> }

\* the texts typed in the session-flow model: a curated question in another
\* casing and padded, a text that is no curated question, a blank text
FlowTexts == { <<" ","a","\n">>, <<"w">>, <<" ">> }

(***************************************************************************)
(* ask_openai_cached, the function body (lines 352-370).                   *)
(***************************************************************************)
\* U+26A0 U+FE0F, the warning sign that starts both failure messages
WarnSign == "(!)"

\* mutant: the error text is left out of the message
ErrorMessageNoText(err) == <<WarnSign, " ","E","r","r","o","r">>

\* line 369: f"<warn> Error: {err}"
ErrorMessage(err) == <<WarnSign, " ","E","r","r","o","r",":"," ">> \o err

\* line 370
OverloadMessage ==
    <<WarnSign, " ","T","h","e"," ","s","y","s","t","e","m"," ","i","s"," ",
      "r","e","c","e","i","v","i","n","g"," ","t","o","o"," ","m","a","n","y"," ",
      "r","e","q","u","e","s","t","s"," ","r","i","g","h","t"," ","n","o","w","."," ",
      "P","l","e","a","s","e"," ","t","r","y"," ","a","g","a","i","n"," ","i","n"," ",
      "a"," ","f","e","w"," ","s","e","c","o","n","d","s",".">>

\* line 366: "rate limit" in err.lower() or "429" in err
IsRateLimit(err) ==
    \/ Contains(Lower(err), <<"r","a","t","e"," ","l","i","m","i","t">>)
    \/ Contains(err, <<"4","2","9">>)

\* mutant: one attempt too many
MaxAttemptsOffByOne == 3 + 1

\* line 353: range(3)
MaxAttempts == 3

\* mutant: a fixed delay, not multiplied by the attempt number
BackoffFlat(a) == 5

\* line 367: time.sleep(5 * (attempt + 1)), attempt counted from 0
Backoff(a) == 5 * (a + 1)

\* mutant: only rate-limit errors are caught
CatchesRateLimitOnly(err) == IsRateLimit(err)

\* line 364: `except Exception` catches whatever the try block raises: the
\* provider's exceptions and the AttributeError of None.strip()
Catches(err) == TRUE

\* What the try block (lines 355-363) does with the provider's outcome: a value
\* to return, or an exception raised inside the block.
TryBlock(o) ==
    IF o.kind = "ok"
    THEN IF ~o.hasText
         THEN [raised |-> TRUE, err |-> ErrNoneStrip]
         ELSE [raised |-> FALSE, value |-> Strip(o.text)]
    ELSE [raised |-> TRUE, err |-> o.text]

CallEvent(o)  == [ev |-> "call", out |-> o]
SleepEvent(n) == [ev |-> "sleep", secs |-> n]

Questions == { <<"w">>, <<"W"," ">> }

\* a caller enters the function body
CallComplete(q) ==
    /\ cpc = "idle"
    /\ cpc' = "try"
    /\ cq' = q
    /\ attempt' = 0
    /\ waited' = 0
    /\ trace' = <<>>
    /\ cret' = <<>>
    /\ UNCHANGED appvars
    /\ UNCHANGED authvars

\* one pass through the try block and, on an exception, the handler up to the
\* sleep (lines 354-369)
Attempt(o) ==
    /\ cpc = "try"
    /\ attempt < MaxAttempts
    /\ trace' = Append(trace, CallEvent(o))
    /\ LET r == TryBlock(o) IN
        IF ~r.raised
        THEN /\ cret' = r.value
             /\ cpc' = "returned"
        ELSE IF ~Catches(r.err)
        THEN /\ cret' = <<>>
             /\ cpc' = "raised"
        ELSE IF IsRateLimit(r.err)
        THEN /\ cret' = cret
             /\ cpc' = "sleep"
        ELSE /\ cret' = ErrorMessage(r.err)
             /\ cpc' = "returned"
    /\ UNCHANGED <<cq, attempt, waited>>
    /\ UNCHANGED appvars
    /\ UNCHANGED authvars

\* lines 367-368, and line 370 when the loop is exhausted
Sleep ==
    /\ cpc = "sleep"
    /\ waited' = waited + Backoff(attempt)
    /\ trace' = Append(trace, SleepEvent(Backoff(attempt)))
    /\ attempt' = attempt + 1
    /\ IF attempt + 1 < MaxAttempts
       THEN cpc' = "try" /\ cret' = cret
       ELSE cpc' = "returned" /\ cret' = OverloadMessage
    /\ UNCHANGED cq
    /\ UNCHANGED appvars
    /\ UNCHANGED authvars

\* the caller takes the result; the function can be called again
Finish ==
    /\ cpc \in {"returned", "raised"}
    /\ cpc' = "idle"
    /\ UNCHANGED <<cq, attempt, waited, trace, cret>>
    /\ UNCHANGED appvars
    /\ UNCHANGED authvars

(***************************************************************************)
(* ask_openai_cached as its callers see it: the body run to its end        *)
(* against the provider's outcomes, behind st.cache_data (line 351).       *)
(***************************************************************************)
\* the provider outcomes drawn in the chat model
ChatOutcomes == { OkText(ReplyPadded), Raises(ErrCode429), Raises(ErrConnection) }

\* the provider's outcome at each attempt of one call; the attempts after the
\* first one that is not rate-limited are never made, and repeat its outcome here
ScriptsOver(outs) ==
    { sc \in [1..MaxAttempts -> outs] :
        \A i \in 1..MaxAttempts :
            ~(sc[i].kind = "raise" /\ IsRateLimit(sc[i].text)) =>
                \A j \in i..MaxAttempts : sc[j] = sc[i] }

Scripts == ScriptsOver(ChatOutcomes)

\* in the session-flow model the provider answers or fails at the first attempt
FlowScripts == ScriptsOver({ OkText(ReplyPadded), Raises(ErrConnection) })

RECURSIVE CompleteFrom(_, _)
\* the loop of lines 353-370 from iteration a on (a counted from 0)
CompleteFrom(a, script) ==
    IF a >= MaxAttempts
    THEN [ret |-> OverloadMessage, raised |-> FALSE, calls |-> 0, slept |-> 0]
    ELSE LET r == TryBlock(script[a + 1]) IN
         IF ~r.raised
         THEN [ret |-> r.value, raised |-> FALSE, calls |-> 1, slept |-> 0]
         ELSE IF ~Catches(r.err)
         THEN [ret |-> <<>>, raised |-> TRUE, calls |-> 1, slept |-> 0]
         ELSE IF IsRateLimit(r.err)
         THEN LET rest == CompleteFrom(a + 1, script)
              IN  [rest EXCEPT !.calls = @ + 1, !.slept = @ + Backoff(a)]
         ELSE [ret |-> ErrorMessage(r.err), raised |-> FALSE, calls |-> 1, slept |-> 0]

RunComplete(script) == CompleteFrom(0, script)

Store(c, q, v) == [k \in DOMAIN c \cup {q} |-> IF k = q THEN v ELSE c[k]]

\* mutant: the body runs on every call, the stored value is never used
UncachedAsk(c, q, script) ==
    LET r == RunComplete(script)
    IN  [cache |-> IF r.raised THEN c ELSE Store(c, q, r.ret), value |-> r.ret,
         raised |-> r.raised, ran |-> TRUE, calls |-> r.calls]

\* mutant: only an answer is stored, a failure message is computed again
AskCachesAnswersOnly(c, q, script) ==
    IF q \in DOMAIN c
    THEN [cache |-> c, value |-> c[q], raised |-> FALSE, ran |-> FALSE, calls |-> 0]
    ELSE LET r == RunComplete(script)
         IN  [cache |-> IF r.raised \/ (r.ret # <<>> /\ Head(r.ret) = WarnSign)
                        THEN c ELSE Store(c, q, r.ret),
              value |-> r.ret, raised |-> r.raised, ran |-> TRUE, calls |-> r.calls]

\* one call ask_openai_cached(q) with cache c: st.cache_data looks the argument
\* up, and on a miss runs the body and stores what it returns
ask_openai_cached(c, q, script) ==
    IF q \in DOMAIN c
    THEN [cache |-> c, value |-> c[q], raised |-> FALSE, ran |-> FALSE, calls |-> 0]
    ELSE LET r == RunComplete(script)
         IN  [cache |-> IF r.raised THEN c ELSE Store(c, q, r.ret), value |-> r.ret,
              raised |-> r.raised, ran |-> TRUE, calls |-> r.calls]

Bump(f, q) == [k \in DOMAIN f \cup {q} |-> IF k \in DOMAIN f
                                            THEN (IF k = q THEN f[k] + 1 ELSE f[k])
                                            ELSE 1]

(***************************************************************************)
(* The table user_chats behind save_chat_to_db and load_chats_from_db.     *)
(***************************************************************************)
\* mutant: a plain insert, the conflict on (user_email, chat_title) is ignored
UpsertInsertOnly(rows, title, messages) ==
    Append(rows, [title |-> title, messages |-> messages])

\* upsert on_conflict (user_email, chat_title), lines 325-330
Upsert(rows, title, messages) ==
    IF \E i \in DOMAIN rows : rows[i].title = title
    THEN [i \in DOMAIN rows |-> IF rows[i].title = title
                                THEN [rows[i] EXCEPT !.messages = messages]
                                ELSE rows[i]]
    ELSE Append(rows, [title |-> title, messages |-> messages])

\* save_chat_to_db (lines 323-332): the upsert, or st.error when it raises
save_chat_to_db(d, user_email, chat, ok) ==
    IF ok THEN [d EXCEPT ![user_email] = Upsert(d[user_email], chat.title, chat.messages)]
    ELSE d

\* mutant: the exception of a failed upsert leaves save_chat_to_db
SaveRaisesOnFailure(ok) == ~ok

\* lines 331-332: `except Exception` turns a failed upsert into st.error; nothing
\* is raised to the caller of save_chat_to_db
SaveRaised(ok) == FALSE

\* load_chats_from_db (lines 334-346): the rows by created_at, or [] when the
\* query raises
load_chats_from_db(d, user_email, ok) ==
    IF ok THEN [i \in DOMAIN d[user_email] |->
                   [title |-> d[user_email][i].title,
                    messages |-> d[user_email][i].messages]]
    ELSE <<>>

(***************************************************************************)
(* The chat page (show_chat_page, render_chat) and the login page.         *)
(***************************************************************************)
\* budgets of the three models, and the number of chats of one identity
MaxResolves == 2
MaxChatOps  == 3
MaxFlowOps  == 2
MaxChats    == 2

\* what an interaction reports about itself
Report(op) ==
    [op |-> op, text |-> <<>>, idx |-> -1, asked |-> <<>>, answer |-> <<>>,
     static |-> FALSE, lookups |-> 0, ran |-> FALSE,
     saved |-> "none", raised |-> FALSE]

\* lines 733-735: the identity's chats, created when missing
UsersNow ==
    IF username \in DOMAIN users THEN users
    ELSE [u \in DOMAIN users \cup {username} |->
             IF u = username THEN <<NewChatDict(1)>> ELSE users[u]]

SetChats(us, u, chats) == [v \in DOMAIN us \cup {u} |-> IF v = u THEN chats ELSE us[v]]

\* lines 754-755
IndexNow == IF current_chat_index = NoIndex THEN 0 ELSE current_chat_index

\* line 757
CurrentChat == UsersNow[username][IndexNow + 1]

\* mutant: the new message goes to the end of the list
InsertAtEnd(msgs, i, m) == Append(msgs, m)

\* list.insert(i, m), i counted from 0
Insert(msgs, i, m) == SubSeq(msgs, 1, i) \o <<m>> \o SubSeq(msgs, i + 1, Len(msgs))

\* mutant: the messages go to the first chat, whichever is active
SetMessagesFirst(chats, ci, msgs) == [chats EXCEPT ![1].messages = msgs]

SetMessages(chats, ci, msgs) == [chats EXCEPT ![ci + 1].messages = msgs]

\* line 568: get_answer passes its argument as it is
GetAnswerQuestion(user_input) == user_input

\* mutant: the Send handler asks with the normalised key of the static lookup
SendQuestionLowered(user_input) == Lower(Strip(user_input))

\* line 789: the Send handler passes user_input.strip()
SendQuestion(user_input) == Strip(user_input)

\* get_answer (lines 564-568)
get_answer(user_input, script) ==
    /\ budget > 0
    /\ budget' = budget - 1
    /\ LET key == StaticKey(user_input) IN
       IF key \in StaticKeys
       THEN /\ last' = [Report("get_answer") EXCEPT
                           !.text = user_input, !.answer = StaticAnswer(key),
                           !.static = TRUE]
            /\ UNCHANGED <<cache, execs>>
       ELSE LET r == ask_openai_cached(cache, GetAnswerQuestion(user_input), script) IN
            /\ cache' = r.cache
            /\ execs' = IF r.ran THEN Bump(execs, GetAnswerQuestion(user_input)) ELSE execs
            /\ last' = [Report("get_answer") EXCEPT
                           !.text = user_input, !.asked = <<GetAnswerQuestion(user_input)>>,
                           !.answer = r.value, !.lookups = 1, !.ran = r.ran, !.raised = r.raised]
    /\ UNCHANGED <<page, logged_in, username, users, current_chat_index, db>>
    /\ UNCHANGED cvars
    /\ UNCHANGED authvars

\* the Send form of show_chat_page (lines 731-735, 754-757, 777-791)
Send(user_input, script, saveOk) ==
    /\ logged_in
    /\ budget > 0
    /\ current_chat_index' = IndexNow
    /\ LET us   == UsersNow
           ci   == IndexNow
           chat == CurrentChat
       IN
       IF Strip(user_input) = <<>>
       THEN /\ users' = us
            /\ last' = Report("other")
            /\ UNCHANGED <<db, cache, execs, budget>>
       ELSE
       LET key == StaticKey(user_input)
           m1  == Append(chat.messages, UserMsg(Strip(user_input)))
       IN
       /\ budget' = budget - 1
       /\ IF key \in StaticKeys
          THEN LET m2 == Append(m1, StaticMsg(StaticAnswer(key))) IN
               /\ users' = SetChats(us, username, SetMessages(us[username], ci, m2))
               /\ db' = save_chat_to_db(db, username,
                                        [title |-> chat.title, messages |-> m2], saveOk)
               /\ last' = [Report("send") EXCEPT
                              !.text = user_input, !.answer = StaticAnswer(key),
                              !.static = TRUE,
                              !.saved = IF saveOk THEN "ok" ELSE "failed",
                              !.raised = SaveRaised(saveOk)]
               /\ UNCHANGED <<cache, execs>>
          ELSE LET r == ask_openai_cached(cache, SendQuestion(user_input), script) IN
               /\ cache' = r.cache
               /\ execs' = IF r.ran THEN Bump(execs, SendQuestion(user_input)) ELSE execs
               /\ IF r.raised
                  THEN \* the exception ends the script run after line 783
                       /\ users' = SetChats(us, username, SetMessages(us[username], ci, m1))
                       /\ db' = db
                       /\ last' = [Report("send") EXCEPT
                                      !.text = user_input,
                                      !.asked = <<SendQuestion(user_input)>>,
                                      !.lookups = 1, !.ran = r.ran, !.raised = TRUE]
                  ELSE LET m2 == Append(m1, BotMsg(r.value)) IN
                       /\ users' = SetChats(us, username, SetMessages(us[username], ci, m2))
                       /\ db' = save_chat_to_db(db, username,
                                    [title |-> chat.title, messages |-> m2], saveOk)
                       /\ last' = [Report("send") EXCEPT
                                      !.text = user_input,
                                      !.asked = <<SendQuestion(user_input)>>,
                                      !.answer = r.value, !.lookups = 1,
                                      !.ran = r.ran,
                                      !.saved = IF saveOk THEN "ok" ELSE "failed",
                                      !.raised = SaveRaised(saveOk)]
    /\ UNCHANGED <<page, logged_in, username>>
    /\ UNCHANGED cvars
    /\ UNCHANGED authvars

\* the text render_chat passes to ask_openai_cached for the clicked message
\* (line 596)
AskedText(msgs, idx) == msgs[idx + 1].content

\* the button "Ask OpenAI" under the message at index idx (render_chat, lines
\* 579-608, reached from show_chat_page line 794)
AskOpenAI(idx, script, saveOk) ==
    /\ logged_in
    /\ budget > 0
    /\ idx \in 0..(Len(CurrentChat.messages) - 1)
    /\ CurrentChat.messages[idx + 1].role # "user"
    /\ CurrentChat.messages[idx + 1].is_static_answer
    /\ budget' = budget - 1
    /\ current_chat_index' = IndexNow
    /\ LET us   == UsersNow
           ci   == IndexNow
           chat == CurrentChat
           q    == AskedText(chat.messages, idx)
           r    == ask_openai_cached(cache, q, script)
       IN
       /\ cache' = r.cache
       /\ execs' = IF r.ran THEN Bump(execs, q) ELSE execs
       /\ IF r.raised
          THEN /\ users' = us
               /\ db' = db
               /\ last' = [Report("ask_openai") EXCEPT
                              !.idx = idx, !.asked = <<q>>, !.lookups = 1,
                              !.ran = r.ran, !.raised = TRUE]
          ELSE LET m2 == Insert(chat.messages, idx + 1, BotMsg(r.value)) IN
               /\ users' = SetChats(us, username, SetMessages(us[username], ci, m2))
               /\ db' = save_chat_to_db(db, username,
                            [title |-> us[username][ci + 1].title, messages |-> m2],
                            saveOk)
               /\ last' = [Report("ask_openai") EXCEPT
                              !.idx = idx, !.asked = <<q>>, !.answer = r.value,
                              !.lookups = 1, !.ran = r.ran,
                              !.saved = IF saveOk THEN "ok" ELSE "failed",
                              !.raised = SaveRaised(saveOk)]
    /\ UNCHANGED <<page, logged_in, username>>
    /\ UNCHANGED cvars
    /\ UNCHANGED authvars

\* mutant: the new chat is appended but the active chat stays the same
NewChatNotActivated ==
    /\ logged_in
    /\ Len(UsersNow[username]) < MaxChats
    /\ users' = SetChats(UsersNow, username,
                         Append(UsersNow[username],
                                NewChatDict(Len(UsersNow[username]) + 1)))
    /\ current_chat_index' = IndexNow
    /\ last' = Report("other")
    /\ UNCHANGED <<page, logged_in, username, db, cache, execs, budget>>
    /\ UNCHANGED cvars
    /\ UNCHANGED authvars

\* the button "New Chat" (lines 745-748)
NewChat ==
    /\ logged_in
    /\ Len(UsersNow[username]) < MaxChats
    /\ LET chats == UsersNow[username]
           new   == Append(chats, NewChatDict(Len(chats) + 1))
       IN  /\ users' = SetChats(UsersNow, username, new)
           /\ current_chat_index' = Len(new) - 1
    /\ last' = Report("other")
    /\ UNCHANGED <<page, logged_in, username, db, cache, execs, budget>>
    /\ UNCHANGED cvars
    /\ UNCHANGED authvars

\* a button of the list "Previous Chats" (lines 750-752)
SelectChat(idx) ==
    /\ logged_in
    /\ idx \in 0..(Len(UsersNow[username]) - 1)
    /\ users' = UsersNow
    /\ current_chat_index' = idx
    /\ last' = Report("other")
    /\ UNCHANGED <<page, logged_in, username, db, cache, execs, budget>>
    /\ UNCHANGED cvars
    /\ UNCHANGED authvars

\* the button "Logout" (lines 739-744)
Logout ==
    /\ logged_in
    /\ users' = UsersNow
    /\ page' = "login"
    /\ logged_in' = FALSE
    /\ username' = NoUser
    /\ current_chat_index' = NoIndex
    /\ last' = Report("other")
    /\ UNCHANGED <<db, cache, execs, budget>>
    /\ UNCHANGED cvars
    /\ UNCHANGED authvars

\* the callback login of the button "Sign In" (lines 625-636), with
\* supabase_sign_in (lines 284-298); authOk is the auth service's verdict
login(email, password, authOk, loadOk) ==
    /\ ~logged_in
    /\ page = "login"
    /\ last' = Report("other")
    /\ IF email = "" \/ password = "" \/ ~authOk
       THEN UNCHANGED <<page, logged_in, username, users, current_chat_index>>
       ELSE LET loaded == load_chats_from_db(db, email, loadOk) IN
            /\ logged_in' = TRUE
            /\ username' = email
            /\ users' = SetChats(users, email,
                                 IF Len(loaded) = 0 THEN <<NewChatDict(1)>> ELSE loaded)
            /\ current_chat_index' = 0
            /\ page' = "chat"
    /\ UNCHANGED <<db, cache, execs, budget>>
    /\ UNCHANGED cvars
    /\ UNCHANGED authvars

\* the callback guest_login of the button "Continue as Guest" (lines 645-651)
guest_login ==
    /\ ~logged_in
    /\ page = "login"
    /\ logged_in' = TRUE
    /\ username' = Guest
    /\ users' = IF Guest \in DOMAIN users THEN users
                ELSE SetChats(users, Guest, <<NewChatDict(1)>>)
    /\ current_chat_index' = 0
    /\ page' = "chat"
    /\ last' = Report("other")
    /\ UNCHANGED <<db, cache, execs, budget>>
    /\ UNCHANGED cvars
    /\ UNCHANGED authvars

(***************************************************************************)
(* Sign-up with a verification code, and the password reset (lines         *)
(* 217-266, 654-726). The session is not signed in on these pages.         *)
(***************************************************************************)
\* how many codes a run issues, and how far the clock runs (minutes)
MaxIssues == 2
MaxTime   == 11

AuthEmails == {"u@x", "v@x"}
\* secrets.token_hex(3): six hex digits
Codes      == {"a1b2c3", "0f0f0f"}
\* what the user may type into a code box
TypedCodes == Codes \cup {"A1B2C3", ""}

\* lines 236 and 243: timedelta(minutes=5), timedelta(minutes=10)
VerificationMinutes == 5
ResetMinutes        == 10

\* dict assignment and `del`
DictDel(c, k) == [x \in DOMAIN c \ {k} |-> c[x]]

\* mutant: send_email reports success whatever happened
send_email_always_true(delivered) == TRUE

\* send_email (lines 217-232): True, or False (with st.error) when building or
\* sending the message raises
send_email(delivered) == delivered

\* lines 235-237 and 242-244: the new code replaces the one stored for the email
StoreCode(codes, email, code, minutes) ==
    Store(codes, email, [code |-> code, expiry |-> now + minutes])

\* lines 251 and 261: datetime.utcnow() > expiry
Expired(t, expiry) == t > expiry

\* mutant: an accepted code stays stored
ConsumeKeeps(codes, email) == codes

\* lines 254 and 264: del codes[email]
Consume(codes, email) == DictDel(codes, email)

\* verify_code (lines 248-256)
verify_code(codes, email, code) ==
    IF email \in DOMAIN codes
    THEN IF Expired(now, codes[email].expiry)
         THEN [valid |-> FALSE, msg |-> "Verification code expired", codes |-> codes]
         ELSE IF code = codes[email].code
         THEN [valid |-> TRUE, msg |-> "Verified", codes |-> Consume(codes, email)]
         ELSE [valid |-> FALSE, msg |-> "Invalid verification code", codes |-> codes]
    ELSE [valid |-> FALSE, msg |-> "Invalid verification code", codes |-> codes]

\* verify_reset_code (lines 258-266)
verify_reset_code(codes, email, code) ==
    IF email \in DOMAIN codes
    THEN IF Expired(now, codes[email].expiry)
         THEN [valid |-> FALSE, msg |-> "Reset code expired", codes |-> codes]
         ELSE IF code = codes[email].code
         THEN [valid |-> TRUE, msg |-> "Code verified", codes |-> Consume(codes, email)]
         ELSE [valid |-> FALSE, msg |-> "Invalid reset code", codes |-> codes]
    ELSE [valid |-> FALSE, msg |-> "Invalid reset code", codes |-> codes]

\* the auth service called whatever the verdict on the code
ServiceCallUnguarded(valid, ok) ==
    IF ok THEN "ok" ELSE "failed"

\* lines 679-681 and 713-715: supabase_sign_up and supabase_update_password are
\* called inside `if valid:`, once, and their result read
ServiceCall(valid, ok) ==
    IF ~valid THEN "none" ELSE IF ok THEN "ok" ELSE "failed"

\* what a sign-up or reset interaction reports about itself
AuthReport(op) ==
    [op |-> op, email |-> NoUser, code |-> "", delivered |-> FALSE,
     valid |-> FALSE, msg |-> "", service |-> "none", welcome |-> FALSE]

\* the most recent issue of a code of one kind for one email
Issue(kind, email, code) ==
    [issued EXCEPT ![kind] = Store(@, email, [code |-> code, at |-> now, accepted |-> 0])]

Accept(kind, email) ==
    [issued EXCEPT ![kind] = [@ EXCEPT ![email].accepted = @ + 1]]

\* lines 799-807 and 694-707: the page the script run renders for the state it
\* finds; the reset page renders the step it read at its top
Rendered(p, step) ==
    IF p = "reset_password" THEN (IF step = 1 THEN "reset1" ELSE "reset2") ELSE p

\* the callback signup of the button "Sign Up" (lines 660-668), with
\* send_verification_code (lines 234-239); the script run that follows the
\* callback renders the page of the state the callback left
signup(new_email, new_password, code, delivered) ==
    /\ ~logged_in
    /\ shown = "login"
    /\ IF new_email = "" \/ new_password = ""
       THEN /\ alast' = AuthReport("signup")
            /\ UNCHANGED <<page, verification_codes, temp_signup_email,
                           temp_signup_password, issued, budget>>
       ELSE /\ budget > 0
            /\ budget' = budget - 1
            /\ verification_codes' =
                   StoreCode(verification_codes, new_email, code, VerificationMinutes)
            /\ issued' = Issue("verification", new_email, code)
            /\ IF send_email(delivered)
               THEN /\ page' = "verify"
                    /\ temp_signup_email' = new_email
                    /\ temp_signup_password' = new_password
               ELSE UNCHANGED <<page, temp_signup_email, temp_signup_password>>
            /\ alast' = [AuthReport("signup") EXCEPT
                            !.email = new_email, !.code = code,
                            !.delivered = delivered]
    /\ shown' = Rendered(page', reset_step)
    /\ UNCHANGED <<password_reset_codes, reset_step, reset_email_temp, now>>
    /\ UNCHANGED <<logged_in, username, users, current_chat_index,
                   db, cache, execs, last>>
    /\ UNCHANGED cvars

\* the callback verify of the button "Verify" (lines 672-690), with verify_code,
\* supabase_sign_up (lines 271-282) and the welcome mail, whose delivery the
\* callback does not look at (line 682)
verify(code, signUpOk) ==
    /\ ~logged_in
    /\ shown = "verify"
    /\ LET r == verify_code(verification_codes, temp_signup_email, code) IN
       /\ verification_codes' = r.codes
       /\ issued' = IF r.valid THEN Accept("verification", temp_signup_email)
                    ELSE issued
       /\ page' = IF r.valid /\ signUpOk THEN "login" ELSE page
       /\ alast' = [AuthReport("verify") EXCEPT
                       !.email = temp_signup_email, !.code = code,
                       !.valid = r.valid, !.msg = r.msg,
                       !.service = ServiceCall(r.valid, signUpOk),
                       !.welcome = r.valid /\ signUpOk]
    /\ shown' = Rendered(page', reset_step)
    /\ UNCHANGED <<password_reset_codes, reset_step, temp_signup_email,
                   temp_signup_password, reset_email_temp, now, budget>>
    /\ UNCHANGED <<logged_in, username, users, current_chat_index,
                   db, cache, execs, last>>
    /\ UNCHANGED cvars

\* the button "Forgot Password?" (lines 640-642): the run goes on rendering the
\* login page
ForgotPassword ==
    /\ ~logged_in
    /\ page = "login" /\ shown = "login"
    /\ page' = "reset_password"
    /\ reset_step' = 1
    /\ shown' = "login"
    /\ alast' = AuthReport("forgot")
    /\ UNCHANGED <<verification_codes, password_reset_codes, temp_signup_email,
                   temp_signup_password, reset_email_temp, now, issued, budget>>
    /\ UNCHANGED <<logged_in, username, users, current_chat_index,
                   db, cache, execs, last>>
    /\ UNCHANGED cvars

\* the button "Send Reset Code" of step 1 (lines 696-705), with
\* send_password_reset_code (lines 241-246)
SendResetCode(reset_email, code, delivered) ==
    /\ ~logged_in
    /\ page = "reset_password" /\ reset_step = 1 /\ shown = "reset1"
    /\ IF reset_email = ""
       THEN /\ alast' = AuthReport("send_reset")
            /\ UNCHANGED <<password_reset_codes, reset_step, reset_email_temp,
                           issued, budget>>
       ELSE /\ budget > 0
            /\ budget' = budget - 1
            /\ password_reset_codes' =
                   StoreCode(password_reset_codes, reset_email, code, ResetMinutes)
            /\ issued' = Issue("reset", reset_email, code)
            /\ IF send_email(delivered)
               THEN /\ reset_step' = 2
                    /\ reset_email_temp' = reset_email
               ELSE UNCHANGED <<reset_step, reset_email_temp>>
            /\ alast' = [AuthReport("send_reset") EXCEPT
                            !.email = reset_email, !.code = code,
                            !.delivered = delivered]
    /\ shown' = "reset1"
    /\ UNCHANGED <<page, verification_codes, temp_signup_email,
                   temp_signup_password, now>>
    /\ UNCHANGED <<logged_in, username, users, current_chat_index,
                   db, cache, execs, last>>
    /\ UNCHANGED cvars

\* the button "Reset Password" of step 2 (lines 707-722), with verify_reset_code
\* and supabase_update_password (lines 300-311)
ResetPassword(code, updateOk) ==
    /\ ~logged_in
    /\ page = "reset_password" /\ reset_step = 2 /\ shown = "reset2"
    /\ LET r == verify_reset_code(password_reset_codes, reset_email_temp, code) IN
       /\ password_reset_codes' = r.codes
       /\ issued' = IF r.valid THEN Accept("reset", reset_email_temp) ELSE issued
       /\ page' = IF r.valid /\ updateOk THEN "login" ELSE page
       /\ reset_step' = IF r.valid /\ updateOk THEN 1 ELSE reset_step
       /\ alast' = [AuthReport("reset") EXCEPT
                       !.email = reset_email_temp, !.code = code,
                       !.valid = r.valid, !.msg = r.msg,
                       !.service = ServiceCall(r.valid, updateOk)]
    /\ shown' = "reset2"
    /\ UNCHANGED <<verification_codes, temp_signup_email, temp_signup_password,
                   reset_email_temp, now, budget>>
    /\ UNCHANGED <<logged_in, username, users, current_chat_index,
                   db, cache, execs, last>>
    /\ UNCHANGED cvars

\* the button "Back to Login" (lines 724-726), below the step the run rendered
BackToLogin ==
    /\ ~logged_in
    /\ page = "reset_password" /\ shown \in {"reset1", "reset2"}
    /\ page' = "login"
    /\ reset_step' = 1
    /\ shown' = Rendered(page, reset_step)
    /\ alast' = AuthReport("back")
    /\ UNCHANGED <<verification_codes, password_reset_codes, temp_signup_email,
                   temp_signup_password, reset_email_temp, now, issued, budget>>
    /\ UNCHANGED <<logged_in, username, users, current_chat_index,
                   db, cache, execs, last>>
    /\ UNCHANGED cvars

\* an event on a widget that the new script run does not render (the screen
\* showed another page or step than the state asks for): the run only renders
Rerun ==
    /\ ~logged_in
    /\ shown # Rendered(page, reset_step)
    /\ shown' = Rendered(page, reset_step)
    /\ alast' = AuthReport("rerun")
    /\ UNCHANGED <<page, verification_codes, password_reset_codes, reset_step,
                   temp_signup_email, temp_signup_password, reset_email_temp,
                   now, issued, budget>>
    /\ UNCHANGED <<logged_in, username, users, current_chat_index,
                   db, cache, execs, last>>
    /\ UNCHANGED cvars

\* the clock readings of the model, in minutes: the multiples of the 5 minutes
\* of a verification code, and the minute after each
Instants == {t \in 0..MaxTime : t % 5 = 0 \/ (t > 5 /\ t % 5 = 1)}

\* time passes between two interactions, up to the next reading; the clock
\* readings are only compared with one another, and the model's clock starts
\* with the first code
Tick ==
    /\ issued.verification # <<>> \/ issued.reset # <<>>
    /\ \E t \in Instants :
          /\ t > now
          /\ \A u \in Instants : u > now => t <= u
          /\ now' = t
    /\ alast' = AuthReport("tick")
    /\ UNCHANGED <<page, verification_codes, password_reset_codes, reset_step,
                   temp_signup_email, temp_signup_password, reset_email_temp,
                   shown, issued, budget>>
    /\ UNCHANGED <<logged_in, username, users, current_chat_index,
                   db, cache, execs, last>>
    /\ UNCHANGED cvars

\* lines 193-212, an empty table and an empty cache
InitApp ==
    /\ verification_codes = <<>>
    /\ password_reset_codes = <<>>
    /\ reset_step = 1
    /\ temp_signup_email = NoUser
    /\ temp_signup_password = ""
    /\ reset_email_temp = NoUser
    /\ shown = "login"
    /\ now = 0
    /\ issued = [verification |-> <<>>, reset |-> <<>>]
    /\ alast = AuthReport("start")
    /\ page = "login"
    /\ logged_in = FALSE
    /\ username = NoUser
    /\ users = <<>>
    /\ current_chat_index = NoIndex
    /\ db = [u \in Identities |-> <<>>]
    /\ cache = <<>>
    /\ execs = <<>>
    /\ last = Report("start")

InitCall ==
    /\ cpc = "idle"
    /\ cq = <<>>
    /\ attempt = 0
    /\ waited = 0
    /\ trace = <<>>
    /\ cret = <<>>

InitComplete == InitCall /\ InitApp /\ budget = 0

NextComplete ==
    \/ \E q \in Questions : CallComplete(q)
    \/ \E o \in ProviderOutcomes : Attempt(o)
    \/ Sleep
    \/ Finish

SpecComplete == InitComplete /\ [][NextComplete]_vars

(***************************************************************************)
(* The application: one browser session, the table and the cache.          *)
(***************************************************************************)
\* the dispatch: a guest's Send and get_answer, with every typed text and every
\* provider script
InitDispatch == InitCall /\ InitApp /\ budget = MaxResolves

NextDispatch ==
    \/ guest_login
    \/ \E t \in TypedTexts, sc \in Scripts, ok \in BOOLEAN : Send(t, sc, ok)
    \/ \E t \in TypedTexts, sc \in Scripts : get_answer(t, sc)

SpecDispatch == InitDispatch /\ [][NextDispatch]_vars

\* a guest's chat page: Send, Ask OpenAI, New Chat, the list of chats
InitChat == InitCall /\ InitApp /\ budget = MaxChatOps

NextChat ==
    \/ guest_login
    \/ \E t \in FlowTexts, sc \in Scripts, ok \in BOOLEAN : Send(t, sc, ok)
    \/ \E i \in 0..(2 * MaxChatOps), sc \in Scripts, ok \in BOOLEAN :
           AskOpenAI(i, sc, ok)
    \/ NewChat
    \/ \E i \in 0..(MaxChats - 1) : SelectChat(i)

SpecChat == InitChat /\ [][NextChat]_vars

\* the session flow: sign-in, guest, logout, chats, the table user_chats
Init == InitCall /\ InitApp /\ budget = MaxFlowOps

Next ==
    \/ \E t \in FlowTexts, sc \in FlowScripts, ok \in BOOLEAN : Send(t, sc, ok)
    \/ \E i \in 0..(2 * MaxFlowOps), sc \in FlowScripts, ok \in BOOLEAN :
           AskOpenAI(i, sc, ok)
    \/ NewChat
    \/ \E i \in 0..(MaxChats - 1) : SelectChat(i)
    \/ Logout
    \/ \E e \in Emails \cup {""}, pw \in {"", "pw"}, a \in BOOLEAN, l \in BOOLEAN :
           login(e, pw, a, l)
    \/ guest_login

Spec == Init /\ [][Next]_vars

\* sign-up with a verification code and the password reset, before sign-in
InitAuth == InitCall /\ InitApp /\ budget = MaxIssues

NextAuth ==
    \/ \E e \in AuthEmails \cup {""}, pw \in {"", "pw"}, c \in Codes, d \in BOOLEAN :
           signup(e, pw, c, d)
    \/ \E c \in TypedCodes, ok \in BOOLEAN : verify(c, ok)
    \/ ForgotPassword
    \/ \E e \in AuthEmails \cup {""}, c \in Codes, d \in BOOLEAN :
           SendResetCode(e, c, d)
    \/ \E c \in TypedCodes, ok \in BOOLEAN : ResetPassword(c, ok)
    \/ BackToLogin
    \/ Rerun
    \/ Tick

SpecAuth == InitAuth /\ [][NextAuth]_vars

\* the function body runs on once entered: each provider call ends with an
\* outcome and each sleep ends
LiveComplete ==
    /\ SpecComplete
    /\ WF_vars(\E o \in ProviderOutcomes : Attempt(o))
    /\ WF_vars(Sleep)

(***************************************************************************)
(* Reading the trace of the current (or the last finished) call.           *)
(***************************************************************************)
CallOuts == LET calls == SelectSeq(trace, LAMBDA e : e.ev = "call")
            IN  [i \in DOMAIN calls |-> calls[i].out]
NCalls   == Len(CallOuts)
Finished == cpc \in {"returned", "idle"} /\ trace # <<>>

\* the provider raised, and the error text is a rate-limit text
RateLimited(o)  == o.kind = "raise" /\ IsRateLimit(o.text)
\* the attempt failed with an error that is no rate-limit error
OtherFailure(o) == TryBlock(o).raised /\ ~IsRateLimit(TryBlock(o).err)
\* the provider answered with a text
Succeeded(o)    == o.kind = "ok" /\ o.hasText

\* attempts 1..k rate-limited and attempt k+1 answered with a text
RateLimitedThenOk(k) ==
    /\ NCalls = k + 1
    /\ \A i \in 1..k : RateLimited(CallOuts[i])
    /\ Succeeded(CallOuts[k + 1])

\* The summary RunComplete used by the chat models agrees with the step-by-step
\* model of the body: same return value, same number of provider calls, same
\* time slept.
SummaryAgreesWithSteps ==
    (cpc = "returned") =>
        LET sc == [i \in 1..MaxAttempts |->
                      IF i <= NCalls THEN CallOuts[i] ELSE CallOuts[NCalls]]
        IN  RunComplete(sc) = [ret |-> cret, raised |-> FALSE,
                               calls |-> NCalls, slept |-> waited]

RECURSIVE SumFiveTimes(_)
\* 5*1 + 5*2 + ... + 5*k
SumFiveTimes(k) == IF k = 0 THEN 0 ELSE 5 * k + SumFiveTimes(k - 1)

(***************************************************************************)
(* C3 (as stated): after k = 0, 1 or 2 rate-limited attempts and a         *)
(* successful one, complete returns exactly the provider's text and has    *)
(* waited 5*1 + ... + 5*k seconds.                                         *)
(***************************************************************************)
C3_ReturnsProviderTextVerbatim ==
    \A k \in 0..2 :
        (Finished /\ RateLimitedThenOk(k)) =>
            /\ cret = CallOuts[k + 1].text
            /\ waited = SumFiveTimes(k)

(***************************************************************************)
(* C3 (amended): after k = 0, 1 or 2 rate-limited attempts and a           *)
(* successful one, complete returns the provider's text with its leading   *)
(* and trailing whitespace removed, and the total time waited is           *)
(* 5*1 + ... + 5*k seconds: 15 when two attempts were rate-limited.        *)
(***************************************************************************)
C3_BackoffThenStrippedText ==
    \A k \in 0..2 :
        (Finished /\ RateLimitedThenOk(k)) =>
            /\ cret = Strip(CallOuts[k + 1].text)
            /\ waited = SumFiveTimes(k)
            /\ (k = 2 => waited = 15)

C3_Witness ==
    /\ cpc = "returned"
    /\ RateLimitedThenOk(2)
    /\ CallOuts[3] = OkText(ReplyPadded)
    /\ waited = 15

(***************************************************************************)
(* C4: when the provider answers all 3 attempts with a rate-limit error,   *)
(* complete makes exactly 3 provider calls, raises nothing and returns the *)
(* fixed "system is receiving too many requests" message.                  *)
(***************************************************************************)
C4_OverloadAfterThreeRateLimits ==
    (NCalls >= 3 /\ \A i \in 1..3 : RateLimited(CallOuts[i])) =>
        /\ NCalls = 3
        /\ cpc \in {"sleep", "returned", "idle"}
        /\ (cpc # "sleep" =>
               /\ cret = OverloadMessage
               /\ Contains(cret, <<"s","y","s","t","e","m"," ","i","s"," ",
                                   "r","e","c","e","i","v","i","n","g"," ",
                                   "t","o","o"," ","m","a","n","y"," ",
                                   "r","e","q","u","e","s","t","s">>))

C4_Witness ==
    /\ cpc = "returned"
    /\ NCalls = 3
    /\ \A i \in 1..3 : RateLimited(CallOuts[i])
    /\ cret = OverloadMessage

(***************************************************************************)
(* C5: when an attempt fails with an error that is no rate-limit error,    *)
(* that attempt is the last thing the call does (no further provider call, *)
(* no sleep), and the call returns a message that starts with the warning  *)
(* sign and contains the error text.                                       *)
(***************************************************************************)
C5_OtherErrorReturnedAtOnce ==
    \A i \in DOMAIN trace :
        (trace[i].ev = "call" /\ OtherFailure(trace[i].out)) =>
            /\ i = Len(trace)
            /\ cpc \in {"returned", "idle"}
            /\ Head(cret) = WarnSign
            /\ Contains(cret, TryBlock(trace[i].out).err)

C5_Witness ==
    /\ cpc = "returned"
    /\ NCalls = 2
    /\ RateLimited(CallOuts[1])
    /\ CallOuts[2] = Raises(ErrConnection)
    /\ waited = 5

(***************************************************************************)
(* C6: whatever the provider does, a call of complete makes at most 3      *)
(* provider calls, never ends with an exception, and ends by returning.    *)
(***************************************************************************)
C6_AlwaysReturnsWithinThreeCalls ==
    /\ [](NCalls <= 3 /\ cpc # "raised")
    /\ (cpc = "try") ~> (cpc = "returned")

C6_Witness ==
    /\ cpc = "returned"
    /\ NCalls = 3
    /\ CallOuts[3] = OkNone

(***************************************************************************)
(* Reading one step of the chat models.                                    *)
(***************************************************************************)
\* the transcript of the active chat
Transcript == CurrentChat.messages

\* every chat but the active one of the current identity is left as it was
OtherChatsUnchanged ==
    \A u \in DOMAIN users :
        /\ u \in DOMAIN users'
        /\ Len(users'[u]) = Len(users[u])
        /\ \A i \in DOMAIN users[u] :
              (u # username \/ i # IndexNow + 1) => users'[u][i] = users[u][i]

(***************************************************************************)
(* C1: when the trimmed, lowercased text equals the lowercased form of a   *)
(* curated question, get_answer and the Send handler yield that question's *)
(* curated answer, without any lookup in the completion cache and without  *)
(* running the completion call; Send appends the answer as a static        *)
(* message.                                                                *)
(***************************************************************************)
C1_CuratedQuestionNeverReachesProvider ==
    [][\A i \in DOMAIN PartnerCache :
          (/\ last'.op \in {"send", "get_answer"}
           /\ Lower(Strip(last'.text)) = Lower(PartnerCache[i].question)) =>
              /\ last'.answer = PartnerCache[i].answer
              /\ last'.static
              /\ last'.lookups = 0 /\ last'.asked = <<>> /\ ~last'.ran
              /\ cache' = cache /\ execs' = execs
              /\ (last'.op = "send" =>
                     Transcript' = Transcript \o
                         <<UserMsg(Strip(last'.text)),
                           StaticMsg(PartnerCache[i].answer)>>)]_vars

C1_Witness ==
    /\ last.op = "send"
    /\ last.text = <<" ","a","\n">>
    /\ last.answer = <<"x">>
    /\ cache = <<>>

(***************************************************************************)
(* C2: for a text that is no curated question, the body of                 *)
(* ask_openai_cached runs at most once per question text: the first        *)
(* resolve runs it and stores what it returns, a later resolve of the same *)
(* text returns the stored value and does not run it, and a stored value   *)
(* stays as it is.                                                         *)
(***************************************************************************)
C2_AtMostOneCompletionPerText ==
    [][/\ \A q \in DOMAIN execs' : execs'[q] <= 1
       /\ \A q \in DOMAIN cache : q \in DOMAIN cache' /\ cache'[q] = cache[q]
       /\ (last'.op \in {"send", "get_answer"} /\ last'.asked # <<>>) =>
             LET q == last'.asked[1] IN
             /\ StaticKey(last'.text) \notin StaticKeys
             /\ IF q \in DOMAIN cache
                THEN /\ ~last'.ran
                     /\ last'.answer = cache[q]
                     /\ execs' = execs
                ELSE /\ last'.ran
                     /\ q \in DOMAIN cache' /\ cache'[q] = last'.answer
                     /\ execs'[q] = 1]_vars

C2_Witness ==
    /\ last.op = "send"
    /\ last.asked = << <<"w">> >>
    /\ ~last.ran
    /\ last.answer = cache[<<"w">>]
    /\ execs[<<"w">>] = 1

(***************************************************************************)
(* C7: the button "Ask OpenAI" under a static answer passes the curated    *)
(* question the user asked to the completion call, not the answer's text.  *)
(***************************************************************************)
C7_AskOpenAIPassesTheQuestion ==
    (last.op = "ask_openai" /\ last.idx >= 1) =>
        \/ last.asked = << Transcript[last.idx].content >>
        \/ \E i \in DOMAIN PartnerCache :
              /\ PartnerCache[i].answer = Transcript[last.idx + 1].content
              /\ last.asked = << PartnerCache[i].question >>

(***************************************************************************)
(* C8: "Ask OpenAI" on the static answer at index i inserts one bot        *)
(* message at index i+1: the messages at 0..i stay, each message at j > i  *)
(* moves to j+1, the transcript grows by one, no other chat changes.       *)
(***************************************************************************)
C8_AskOpenAIInsertsRightAfter ==
    [][last'.op = "ask_openai" =>
          LET i == last'.idx IN
          /\ Len(Transcript') = Len(Transcript) + 1
          /\ \A j \in 0..i : Transcript'[j + 1] = Transcript[j + 1]
          /\ Transcript'[i + 2] = BotMsg(last'.answer)
          /\ \A j \in (i + 1)..(Len(Transcript) - 1) :
                Transcript'[j + 2] = Transcript[j + 1]
          /\ OtherChatsUnchanged]_vars

C8_Witness ==
    /\ last.op = "ask_openai"
    /\ last.idx = 1
    /\ Len(Transcript) = 5
    /\ Transcript[2].is_static_answer
    /\ Transcript[3] = BotMsg(last.answer)
    /\ Transcript[4].role = "user"

(***************************************************************************)
(* C9: a Send of a non-blank text appends two messages at the end of the   *)
(* active chat's transcript, the user's message and then the bot's answer, *)
(* and changes no earlier message and no other chat.                       *)
(***************************************************************************)
C9_SendAppendsUserThenBot ==
    [][last'.op = "send" =>
          /\ Len(Transcript') = Len(Transcript) + 2
          /\ SubSeq(Transcript', 1, Len(Transcript)) = Transcript
          /\ Transcript'[Len(Transcript) + 1] = UserMsg(Strip(last'.text))
          /\ Transcript'[Len(Transcript) + 2].role = "bot"
          /\ Transcript'[Len(Transcript) + 2].content = last'.answer
          /\ (Transcript = <<>> => Len(Transcript') = 2)
          /\ current_chat_index' = IndexNow
          /\ OtherChatsUnchanged]_vars

C9_Witness ==
    /\ last.op = "send"
    /\ IndexNow = 1
    /\ Len(Transcript) = 4
    /\ Transcript[3] = UserMsg(<<"w">>)
    /\ Transcript[4] = BotMsg(last.answer)
    /\ Transcript[1].content = <<"a">>

(***************************************************************************)
(* C10: in every step, every chat of every identity is still there (under  *)
(* its title) with a transcript at least as long that still holds each of  *)
(* its messages.                                                           *)
(***************************************************************************)
C10_TranscriptsNeverShrink ==
    [][\A u \in DOMAIN users : \A i \in DOMAIN users[u] :
          /\ u \in DOMAIN users'
          /\ \E j \in DOMAIN users'[u] :
                /\ users'[u][j].title = users[u][i].title
                /\ Len(users'[u][j].messages) >= Len(users[u][i].messages)
                /\ \A k \in DOMAIN users[u][i].messages :
                      \E n \in DOMAIN users'[u][j].messages :
                          users'[u][j].messages[n] = users[u][i].messages[k]]_vars

(***************************************************************************)
(* Reading the table user_chats.                                           *)
(***************************************************************************)
\* the rows of identity u stored under the title t
RowsOf(d, u, t) == {i \in DOMAIN d[u] : d[u][i].title = t}

\* the step changed the messages of a chat of the identity that is signed in
TranscriptMutated ==
    /\ logged_in /\ logged_in'
    /\ username' = username
    /\ username \in DOMAIN users
    /\ \E i \in DOMAIN users[username] :
          /\ i \in DOMAIN users'[username]
          /\ users'[username][i].messages # users[username][i].messages

(***************************************************************************)
(* C11: only Send and Ask OpenAI change a transcript, and each of them     *)
(* ends, in the same interaction, with one upsert of the whole chat under  *)
(* the key (identity, title): when the upsert succeeds the table holds     *)
(* exactly one row under that key, its messages equal the transcript in    *)
(* memory, and no other row changed; when it fails the table is as before. *)
(***************************************************************************)
C11_MutationIsUpserted ==
    [][/\ TranscriptMutated => last'.op \in {"send", "ask_openai"}
       /\ last'.op \in {"send", "ask_openai"} =>
             LET t == CurrentChat.title IN
             /\ Transcript' # Transcript
             /\ CurrentChat'.title = t
             /\ last'.saved \in {"ok", "failed"}
             /\ last'.saved = "failed" => db' = db
             /\ last'.saved = "ok" =>
                   /\ Cardinality(RowsOf(db', username, t)) = 1
                   /\ \A i \in RowsOf(db', username, t) :
                         db'[username][i].messages = Transcript'
                   /\ \A u \in DOMAIN db : u # username => db'[u] = db[u]
                   /\ \A i \in DOMAIN db[username] :
                         db[username][i].title # t =>
                             db'[username][i] = db[username][i]]_vars

C11_Witness ==
    /\ last.op = "ask_openai"
    /\ last.saved = "ok"
    /\ username \in Emails
    /\ Len(Transcript) = 3
    /\ Len(db[username]) = 1
    /\ db[username][1].messages = Transcript

(***************************************************************************)
(* C12: when the upsert fails during a Send or an Ask OpenAI, the messages *)
(* the interaction added stay in the transcript in memory, nothing is      *)
(* raised out of the interaction, the table is as before, and the session  *)
(* stays signed in on the chat page.                                       *)
(***************************************************************************)
C12_FailedUpsertKeepsMessages ==
    [][(last'.op \in {"send", "ask_openai"} /\ last'.saved = "failed") =>
          LET n == Len(Transcript) IN
          /\ ~last'.raised
          /\ last'.op = "send" =>
                /\ Len(Transcript') = n + 2
                /\ SubSeq(Transcript', 1, n) = Transcript
                /\ Transcript'[n + 1] = UserMsg(Strip(last'.text))
                /\ Transcript'[n + 2].role = "bot"
                /\ Transcript'[n + 2].content = last'.answer
          /\ last'.op = "ask_openai" =>
                /\ Len(Transcript') = n + 1
                /\ Transcript'[last'.idx + 2] = BotMsg(last'.answer)
          /\ db' = db
          /\ logged_in' /\ username' = username /\ page' = page]_vars

C12_Witness ==
    /\ last.op = "ask_openai"
    /\ last.saved = "failed"
    /\ ~last.raised
    /\ username \in Emails
    /\ Len(Transcript) = 3
    /\ Transcript[3] = BotMsg(last.answer)
    /\ db[username] = <<>>

(***************************************************************************)
(* C13: New Chat adds one chat with an empty transcript at the end of the  *)
(* signed-in identity's chats and makes it the active one; every chat that *)
(* was there, of this and of every other identity, stays as it was. A      *)
(* button of the list of chats changes which chat is active and no chat's  *)
(* title or messages. Neither writes to the table.                         *)
(***************************************************************************)
C13_NewChatAndSelectLeaveChatsAlone ==
    [][/\ NewChat =>
             LET old == users[username] IN
             /\ Len(users'[username]) = Len(old) + 1
             /\ SubSeq(users'[username], 1, Len(old)) = old
             /\ users'[username][Len(old) + 1].messages = <<>>
             /\ current_chat_index' = Len(old)
             /\ Transcript' = <<>>
             /\ \A u \in DOMAIN users : u # username => users'[u] = users[u]
             /\ db' = db
       /\ (\E i \in 0..(MaxChats - 1) : SelectChat(i)) =>
             /\ users' = users
             /\ current_chat_index' \in 0..(Len(users[username]) - 1)
             /\ db' = db]_vars

C13_Witness ==
    /\ last.op = "other"
    /\ username \in Emails
    /\ Len(users[username]) = 2
    /\ Len(users[username][1].messages) = 2
    /\ users[username][2].messages = <<>>
    /\ current_chat_index = 1

(***************************************************************************)
(* C14 (as stated): for a text that is no curated question the dispatcher  *)
(* passes the raw text, neither trimmed nor lowercased, as the cache key   *)
(* and as the question, so that every such text typed is a cache key of    *)
(* its own with a completion call of its own.                              *)
(***************************************************************************)
C14_RawTextIsTheCacheKey ==
    (last.op \in {"send", "get_answer"} /\ last.asked # <<>>) =>
        /\ last.asked = << last.text >>
        /\ last.text \in DOMAIN cache
        /\ execs[last.text] = 1

(***************************************************************************)
(* C14 (amended): for a text that is no curated question, get_answer       *)
(* passes the raw text and the Send handler passes the text with its       *)
(* surrounding whitespace removed, in both cases not lowercased, as the    *)
(* cache key and as the question. The completion call runs exactly when    *)
(* that key is not yet in the cache: two texts that differ in letter case  *)
(* are two keys with one completion call each, and two texts that differ   *)
(* only in surrounding whitespace are two keys through get_answer and one  *)
(* key, with one completion call, through Send.                            *)
(***************************************************************************)
C14_SendTrimsGetAnswerPassesRaw ==
    [][(last'.op \in {"send", "get_answer"} /\ last'.asked # <<>>) =>
          LET q == IF last'.op = "send" THEN Strip(last'.text) ELSE last'.text IN
          /\ last'.asked = << q >>
          /\ last'.ran = (q \notin DOMAIN cache)
          /\ DOMAIN cache' = DOMAIN cache \cup {q}
          /\ execs'[q] = 1
          /\ \A k \in DOMAIN execs : execs'[k] = execs[k]]_vars

C14_Witness ==
    /\ last.op = "send"
    /\ last.text = <<" ","w">>
    /\ last.asked = << <<"w">> >>
    /\ last.ran
    /\ DOMAIN cache = {<<" ","w">>, <<"w">>}
    /\ execs[<<" ","w">>] = 1 /\ execs[<<"w">>] = 1

(***************************************************************************)
(* C16: a verification code typed for an email is accepted only if it is   *)
(* the code most recently issued for that email, issued no more than 5     *)
(* minutes ago and not accepted before; likewise a reset code, with 10     *)
(* minutes. No issued code is ever accepted twice.                         *)
(***************************************************************************)
C16_CodeAcceptedOnceWhileFresh ==
    [][/\ (alast'.op = "verify" /\ alast'.valid) =>
             LET e == alast'.email IN
             /\ e \in DOMAIN issued.verification
             /\ alast'.code = issued.verification[e].code
             /\ now <= issued.verification[e].at + 5
             /\ issued.verification[e].accepted = 0
       /\ (alast'.op = "reset" /\ alast'.valid) =>
             LET e == alast'.email IN
             /\ e \in DOMAIN issued.reset
             /\ alast'.code = issued.reset[e].code
             /\ now <= issued.reset[e].at + 10
             /\ issued.reset[e].accepted = 0
       /\ \A e \in DOMAIN issued'.verification :
             issued'.verification[e].accepted <= 1
       /\ \A e \in DOMAIN issued'.reset :
             issued'.reset[e].accepted <= 1]_vars

\* the code was accepted (the sign-up then failed), and typed again in time: it
\* is rejected
C16_Witness ==
    /\ alast.op = "verify"
    /\ ~alast.valid
    /\ alast.email \in DOMAIN issued.verification
    /\ alast.code = issued.verification[alast.email].code
    /\ issued.verification[alast.email].accepted = 1
    /\ now <= issued.verification[alast.email].at + 5

(***************************************************************************)
(* C17: when the mail with the code cannot be sent, the flow stays in the  *)
(* step it was in: a failed Sign Up leaves the page (the login page stays  *)
(* on the screen), a failed Send Reset Code leaves reset step 1 on the     *)
(* screen, so that the button can be pressed again. The page becomes       *)
(* 'verify' only in a Sign Up whose mail was sent, and the reset step      *)
(* becomes 2 only in a Send Reset Code whose mail was sent.                *)
(***************************************************************************)
C17_FailedSendKeepsTheStep ==
    [][/\ (alast'.op = "signup" /\ alast'.email # NoUser /\ ~alast'.delivered) =>
             /\ page' = page /\ reset_step' = reset_step
             /\ page = "login" => (page' = "login" /\ shown' = "login")
             /\ temp_signup_email' = temp_signup_email
       /\ (alast'.op = "send_reset" /\ alast'.email # NoUser /\ ~alast'.delivered) =>
             /\ page' = "reset_password" /\ reset_step' = 1 /\ shown' = "reset1"
             /\ reset_email_temp' = reset_email_temp
       /\ (page' = "verify" /\ page # "verify") =>
             (alast'.op = "signup" /\ alast'.delivered)
       /\ (reset_step' = 2 /\ reset_step # 2) =>
             (alast'.op = "send_reset" /\ alast'.delivered)]_vars

\* a second Send Reset Code after a first one, and its mail was not sent
C17_Witness ==
    /\ alast.op = "send_reset"
    /\ alast.email \in AuthEmails
    /\ ~alast.delivered
    /\ page = "reset_password" /\ reset_step = 1 /\ shown = "reset1"
    /\ budget = MaxIssues - 2

(***************************************************************************)
(* C18: in every transcript, in memory and in the table, a message that    *)
(* carries the static-answer flag is a bot message that directly follows a *)
(* user message matching a curated question, and its content is that       *)
(* question's curated answer. The bot message a Send appends after a       *)
(* completion call (an answer or an error message) and the bot message an  *)
(* Ask OpenAI inserts do not carry the flag.                               *)
(***************************************************************************)
FlagJustified(msgs, i) ==
    /\ msgs[i].role = "bot"
    /\ i > 1
    /\ msgs[i - 1].role = "user"
    /\ \E k \in DOMAIN PartnerCache :
          /\ Lower(Strip(msgs[i - 1].content)) = Lower(PartnerCache[k].question)
          /\ msgs[i].content = PartnerCache[k].answer

AllFlagsJustified(msgs) ==
    \A i \in DOMAIN msgs : msgs[i].is_static_answer => FlagJustified(msgs, i)

C18_FlagOnlyOnCuratedReplies ==
    /\ \A u \in DOMAIN users : \A c \in DOMAIN users[u] :
          AllFlagsJustified(users[u][c].messages)
    /\ \A u \in DOMAIN db : \A c \in DOMAIN db[u] :
          AllFlagsJustified(db[u][c].messages)
    /\ (last.op = "send" /\ last.asked # <<>>) =>
          ~Transcript[Len(Transcript)].is_static_answer
    /\ last.op = "ask_openai" =>
          ~Transcript[last.idx + 2].is_static_answer

C18_Witness ==
    /\ last.op = "ask_openai"
    /\ username \in Emails
    /\ Len(Transcript) = 3
    /\ Transcript[2].is_static_answer
    /\ FlagJustified(Transcript, 2)
    /\ Transcript[3].role = "bot" /\ ~Transcript[3].is_static_answer
    /\ Len(db[username]) = 1
    /\ db[username][1].messages = Transcript

(***************************************************************************)
(* C19: whatever the body of ask_openai_cached returns is stored, the      *)
(* overload message and the warning-prefixed error messages included; a    *)
(* stored entry is never changed or removed; and a resolve of a stored     *)
(* text returns the stored value without running the body, whatever the    *)
(* provider would answer now.                                              *)
(***************************************************************************)
IsFailureMessage(v) == v # <<>> /\ Head(v) = WarnSign

\* a provider that answers the first attempt of a call with a text
ProviderNowSucceeds == [i \in 1..MaxAttempts |-> OkText(ReplyPlain)]

C19_FailureResultsStayCached ==
    [][/\ \A q \in DOMAIN cache : q \in DOMAIN cache' /\ cache'[q] = cache[q]
       /\ (last'.op \in {"send", "get_answer"} /\ last'.asked # <<>>) =>
             LET q == last'.asked[1] IN
             /\ q \in DOMAIN cache' /\ cache'[q] = last'.answer
             /\ LET again == ask_openai_cached(cache', q, ProviderNowSucceeds) IN
                   /\ again.value = last'.answer
                   /\ ~again.ran /\ again.calls = 0
                   /\ again.cache = cache'
             /\ last'.ran => q \notin DOMAIN cache
             /\ q \in DOMAIN cache =>
                   /\ ~last'.ran
                   /\ last'.answer = cache[q]
                   /\ execs' = execs]_vars

\* the first resolve of the text ended with the overload message; the second
\* returns it from the cache
C19_Witness ==
    /\ last.op = "send"
    /\ last.asked # <<>>
    /\ ~last.ran
    /\ last.answer = OverloadMessage
    /\ IsFailureMessage(cache[last.asked[1]])
    /\ execs[last.asked[1]] = 1

(***************************************************************************)
(* C20: within one call of complete, every wait comes right after a        *)
(* rate-limited attempt, lasts 5*k seconds where k is the number of that   *)
(* attempt counted from 1, and is followed by a further provider attempt:  *)
(* a call that has returned has not waited after its last attempt.         *)
(***************************************************************************)
\* the number of provider calls among the first i events of the call
CallsUpTo(i) == Len(SelectSeq(SubSeq(trace, 1, i), LAMBDA e : e.ev = "call"))

C20_EveryWaitIsFollowedByARetry ==
    \A i \in DOMAIN trace :
        trace[i].ev = "sleep" =>
            /\ i > 1
            /\ trace[i - 1].ev = "call"
            /\ RateLimited(trace[i - 1].out)
            /\ trace[i].secs = 5 * CallsUpTo(i)
            /\ (cpc \in {"returned", "idle"}) =>
                  (i < Len(trace) /\ trace[i + 1].ev = "call")

(***************************************************************************)
(* C21: in every reachable state no two chats of one identity have the     *)
(* same title, so that the key (identity, title) of the table names one    *)
(* chat.                                                                   *)
(***************************************************************************)
C21_TitlesAreUniquePerIdentity ==
    \A u \in DOMAIN users : \A i, j \in DOMAIN users[u] :
        users[u][i].title = users[u][j].title => i = j

(* the step accepted, for the email the service is called with, the code most recently issued to it, for the first time *)
CodeAcceptedNow(kind) ==
    LET e == alast'.email IN
    /\ e \in DOMAIN issued[kind]
    /\ alast'.valid
    /\ alast'.code = issued[kind][e].code
    /\ issued[kind][e].accepted = 0
    /\ issued'[kind][e].accepted = 1

(* C22: signUp is called for an email only in a step in which verify_code accepted a code issued for that email, updatePassword only in a step in which verify_reset_code accepted a reset code issued for that email, each such code being accepted for the first time, no other step calls the service, and the welcome mail is sent only after a successful signUp. *)
C22_ServiceCallsFollowAcceptedCodes ==
    [][/\ (alast'.op = "verify" /\ alast'.service # "none")
             => CodeAcceptedNow("verification")
       /\ (alast'.op = "reset" /\ alast'.service # "none")
             => CodeAcceptedNow("reset")
       /\ alast'.op \notin {"verify", "reset"} => alast'.service = "none"
       /\ alast'.welcome => (alast'.op = "verify" /\ alast'.service = "ok")]_vars

C22_Witness ==
    /\ alast.op = "reset" /\ alast.service = "ok"
    /\ issued["reset"][alast.email].accepted = 1
    /\ \E e \in DOMAIN issued["verification"] :
           issued["verification"][e].accepted = 1

====
